---- MODULE Spec2Model ----
(***************************************************************************)
(* Model of the ABNF recogniser of pfs-parser                              *)
(* (include/pfs/parser/abnf/parser.hpp).                                   *)
(*                                                                         *)
(* The input is a sequence of character codes; a cursor is a 1-based index *)
(* into it and `last` is Len(input) + 1.  Every advancer is an operator    *)
(* that takes the context, the caller's cursor and the execution trace so  *)
(* far and returns [ok, pos, ev]: the returned boolean, the caller's       *)
(* cursor after the call and the extended trace.  The trace holds the      *)
(* observer callbacks in call order, plus marks for reads through the end  *)
(* iterator and for signed overflow.                                       *)
(***************************************************************************)
EXTENDS Integers, Sequences, FiniteSets, TLC

VARIABLES
    input,      \* the character sequence [first, last)
    start,      \* the caller's cursor before the call
    vetoAt,     \* the observer returns false from its vetoAt-th boolean callback (0: never)
    sticky,     \* ... and from every later one
    oob,        \* the byte a read through the end iterator yields
    ub,         \* what signed overflow does in this build: "wrap" or "trap"
    op,         \* "idle", or the function that was called
    res         \* what the call returned

vars == <<input, start, vetoAt, sticky, oob, ub, op, res>>

----------------------------------------------------------------------------
(* Bounds of the model *)

\* width of `long` in the model (64 on LP64; TLC integers are 32-bit)
LongBits == 5
\* longest input of to_decimal_number
MaxDigits == 3
\* most fragments in the body of a parsed text
MaxParts == 2
\* the latest boolean callback a vetoing observer refuses
MaxVeto == 9
MaxRepeatLen == 4
\* the longest text behind the base letter of a numeric literal
MaxNumLen == 5
\* the longest text and the largest bound given to the repetition driver
MaxRangeLen == 3
MaxRange == 3
\* the longest body of a rule of a document
MaxDocLen == 2
\* the longest text a loop runs on
MaxLoopLen == 4

----------------------------------------------------------------------------
(* Characters *)

Ord ==
    ("a" :> 97) @@ ("b" :> 98) @@ ("d" :> 100) @@ ("x" :> 120) @@ ("r" :> 114)
    @@ ("0" :> 48) @@ ("1" :> 49) @@ ("2" :> 50) @@ ("3" :> 51) @@ ("4" :> 52)
    @@ ("5" :> 53) @@ ("6" :> 54) @@ ("7" :> 55) @@ ("8" :> 56) @@ ("9" :> 57)
    @@ ("NUL" :> 0) @@ ("HTAB" :> 9) @@ ("LF" :> 10) @@ ("CR" :> 13) @@ (" " :> 32)
    @@ ("\"" :> 34) @@ ("%" :> 37) @@ ("(" :> 40) @@ (")" :> 41) @@ ("*" :> 42)
    @@ ("-" :> 45) @@ ("." :> 46) @@ ("/" :> 47) @@ (":" :> 58) @@ (";" :> 59)
    @@ ("<" :> 60) @@ ("=" :> 61) @@ (">" :> 62) @@ ("[" :> 91) @@ ("]" :> 93)
    @@ ("A" :> 65) @@ ("F" :> 70) @@ ("Z" :> 90) @@ ("f" :> 102) @@ ("z" :> 122)
    @@ ("!" :> 33) @@ ("~" :> 126) @@ ("?" :> 63)

\* the character sequence spelled by a tuple of character names
Str(t) == [i \in 1..Len(t) |-> Ord[t[i]]]

\* all sequences over S of length 0..n
RECURSIVE SeqsUpTo(_, _)
SeqsUpTo(S, n) ==
    IF n = 0 THEN {<<>>}
    ELSE LET shorter == SeqsUpTo(S, n - 1)
         IN  shorter \cup {Append(s, c) : s \in {t \in shorter : Len(t) = n - 1}, c \in S}

----------------------------------------------------------------------------
(* std::numeric_limits<long> and C++ integer arithmetic *)

LongMax == 2^(LongBits - 1) - 1
LongMin == -(2^(LongBits - 1))

\* C++ division truncates toward zero, and the remainder takes the sign of
\* the dividend
CDiv(a, b) == IF a >= 0 THEN a \div b ELSE -((-a) \div b)
CRem(a, b) == a - b * CDiv(a, b)

\* two's complement reduction of a mathematical result to `long`
WrapLong(v) == ((v - LongMin) % (2^LongBits)) + LongMin
InLong(v) == LongMin <= v /\ v <= LongMax

\* uint32_t(a) - uint32_t(b) for character codes: a wrapped difference is far
\* above any character code (2^32 does not fit a TLC integer; 2^16 makes
\* the same comparisons come out the same for 8-bit characters)
U32Sub(a, b) == (a - b) % (2^16)

----------------------------------------------------------------------------
(* to_decimal_number *)

\* the loop of to_decimal_number from index i on, `result` accumulated so far.
\* `first`/`second` are the members of the returned pair; `ubhit` tells that
\* a signed overflow was executed (undefined behaviour; the build either
\* wraps or traps, see `mode`); `trapped` that the build trapped there.
RECURSIVE to_decimal_loop(_, _, _, _)

\* (mutant) a loop that returns what it has accumulated at a non-digit
to_decimal_loop_keeps(s, i, result, mode) ==
    LET radix == 10
        cutoff_value == -1 * CDiv(LongMin, radix)
        cutoff_limit == -1 * CRem(LongMin, radix)
    IN  IF i > Len(s)
        THEN [first |-> result, second |-> TRUE, ubhit |-> FALSE, trapped |-> FALSE]
        ELSE LET digit == U32Sub(s[i], Ord["0"])
             IN  IF digit < 0 \/ digit > 9
                 THEN [first |-> result, second |-> FALSE, ubhit |-> FALSE, trapped |-> FALSE]
                 ELSE IF result < cutoff_value
                         \/ (result = cutoff_value /\ digit <= cutoff_limit)
                 THEN LET mul == result * radix
                          add == WrapLong(mul) + digit
                      IN  IF InLong(mul) /\ InLong(add)
                          THEN to_decimal_loop(s, i + 1, add, mode)
                          ELSE IF mode = "trap"
                          THEN [first |-> 0, second |-> FALSE, ubhit |-> TRUE, trapped |-> TRUE]
                          ELSE LET rest == to_decimal_loop(s, i + 1, WrapLong(add), mode)
                               IN  [rest EXCEPT !.ubhit = TRUE]
                 ELSE [first |-> LongMax, second |-> FALSE, ubhit |-> FALSE, trapped |-> FALSE]

to_decimal_loop(s, i, result, mode) ==
    LET radix == 10
        cutoff_value == -1 * CDiv(LongMin, radix)
        cutoff_limit == -1 * CRem(LongMin, radix)
    IN  IF i > Len(s)
        THEN [first |-> result, second |-> TRUE, ubhit |-> FALSE, trapped |-> FALSE]
        ELSE LET digit == U32Sub(s[i], Ord["0"])
             IN  IF digit < 0 \/ digit > 9
                 THEN \* Character is not a digit
                      [first |-> 0, second |-> FALSE, ubhit |-> FALSE, trapped |-> FALSE]
                 ELSE IF result < cutoff_value
                         \/ (result = cutoff_value /\ digit <= cutoff_limit)
                 THEN LET mul == result * radix
                          add == WrapLong(mul) + digit
                      IN  IF InLong(mul) /\ InLong(add)
                          THEN to_decimal_loop(s, i + 1, add, mode)
                          ELSE IF mode = "trap"
                          THEN [first |-> 0, second |-> FALSE, ubhit |-> TRUE, trapped |-> TRUE]
                          ELSE LET rest == to_decimal_loop(s, i + 1, WrapLong(add), mode)
                               IN  [rest EXCEPT !.ubhit = TRUE]
                 ELSE \* Too big, overflow
                      [first |-> LongMax, second |-> FALSE, ubhit |-> FALSE, trapped |-> FALSE]

to_decimal_number(s, mode) == to_decimal_loop(s, 1, 0, mode)

----------------------------------------------------------------------------
(* Character classes (core_rules.hpp, RFC 5234 appendix B.1) *)

AlphaChars == (Ord["A"]..Ord["Z"]) \cup (Ord["a"]..Ord["z"])
DigitChars == Ord["0"]..Ord["9"]
HexDigitChars == DigitChars \cup (Ord["A"]..Ord["F"]) \cup (Ord["a"]..Ord["f"])
BitChars == {Ord["0"], Ord["1"]}

is_alpha_char(ch) == ch \in AlphaChars
is_digit_char(ch) == ch \in DigitChars
is_dquote_char(ch) == ch = Ord["\""]
is_visible_char(ch) == Ord["!"] <= ch /\ ch <= Ord["~"]
is_space_char(ch) == ch = Ord[" "]
is_whitespace_char(ch) == ch = Ord[" "] \/ ch = Ord["HTAB"]
is_cr_char(ch) == ch = Ord["CR"]
is_lf_char(ch) == ch = Ord["LF"]

\* prose_value_char = %x20-3D / %x3F-7E
is_prose_value_char(ch) ==
    LET a == U32Sub(ch, 0) >= Ord[" "] /\ U32Sub(ch, 0) <= Ord["="]
    IN  a \/ (U32Sub(ch, 0) >= Ord["?"] /\ U32Sub(ch, 0) <= Ord["~"])

ProseValueChars == {ch \in 0..127 : is_prose_value_char(ch)}

----------------------------------------------------------------------------
(* The context of one call: the input, the observer and the build *)

Ctx(s, v, st, o, u) ==
    [s |-> s, last |-> Len(s) + 1, vetoAt |-> v, sticky |-> st, oob |-> o, ub |-> u]

\* *p: the character at p, or whatever lies behind the sequence
Deref(c, p) == IF p >= 1 /\ p < c.last THEN c.s[p] ELSE c.oob

\* [first, last) as a sequence
Span(c, a, b) == [i \in 1..(b - a) |-> Deref(c, a + i - 1)]

(* Trace entries.  cb: the callback; a, b: a span (or the bounds of repeat, *)
(* or the position of an error); flag: a number_flag or an error code;     *)
(* inc: is_incremental_alternatives; arg: the `success` passed to an end   *)
(* callback; ret: what the observer returned.                              *)
Event(cb, a, b, flag, inc, arg) ==
    [cb |-> cb, a |-> a, b |-> b, flag |-> flag, inc |-> inc, arg |-> arg, ret |-> TRUE]

BeginCallbacks ==
    {"begin_document", "begin_rule", "begin_alternation", "begin_concatenation",
     "begin_repetition", "begin_group", "begin_option"}
EndCallbacks ==
    {"end_document", "end_rule", "end_alternation", "end_concatenation",
     "end_repetition", "end_group", "end_option"}
LeafCallbacks ==
    {"rulename", "quoted_string", "prose", "first_number", "next_number",
     "last_number", "repeat"}
BoolCallbacks == BeginCallbacks \cup EndCallbacks \cup LeafCallbacks

\* marks of the trace that are no callbacks
DerefEnd == "deref_end"   \* a read through the end iterator (or behind it)
Overflow == "overflow"    \* a signed overflow that the build wrapped
Abort == "abort"          \* a signed overflow that the build trapped on
Marks == {DerefEnd, Overflow, Abort}

NumBool(ev) == Cardinality({i \in DOMAIN ev : ev[i].cb \in BoolCallbacks})

\* the observer's answer to its next boolean callback
Vetoes(c, ev) ==
    LET n == NumBool(ev) + 1
    IN  c.vetoAt # 0 /\ (n = c.vetoAt \/ (c.sticky /\ n > c.vetoAt))

\* call a boolean callback: the trace with the call and its answer
Notify(c, ev, e) == Append(ev, [e EXCEPT !.ret = ~Vetoes(c, ev)])
\* the answer of the call just made
Ret(ev) == ev[Len(ev)].ret

\* call a void callback
Tell(ev, e) == Append(ev, e)

\* mark a read of *p that no comparison with `last` guards
Read(c, ev, p) ==
    IF p >= c.last THEN Append(ev, Event(DerefEnd, p, p, "", FALSE, FALSE)) ELSE ev

Result(ok, pos, ev) == [ok |-> ok, pos |-> pos, ev |-> ev]

\* compare_and_assign(pos, p): pos = p, true iff that moved pos
compare_and_assign(pos, p, ev) == Result(pos # p, p, ev)

\* success = ctx.x(...) with the trace ev1 behind it, then
\* return success && compare_and_assign(pos, p)
commit_if(pos, p, ev1) ==
    IF Ret(ev1) THEN compare_and_assign(pos, p, ev1) ELSE Result(FALSE, pos, ev1)

\* F(v), with v computed once
Bind(v, F(_)) == CHOOSE y \in {F(r) : r \in {v}} : TRUE

----------------------------------------------------------------------------
(* Low-level token advancers (core_rules.hpp) *)

\* while (p != last && pred(*p)) ++p
RECURSIVE SkipWhile(_, _, _)
SkipWhile(c, p, S) ==
    IF p # c.last /\ Deref(c, p) \in S THEN SkipWhile(c, p + 1, S) ELSE p

\* advance_digit_chars, advance_hexdigit_chars, advance_bit_chars: 1*<class>
advance_chars(c, pos, S) ==
    IF pos = c.last THEN [ok |-> FALSE, pos |-> pos]
    ELSE Bind(SkipWhile(c, pos, S), LAMBDA p : [ok |-> p # pos, pos |-> p])

\* newline: CRLF, a bare CR or a bare LF
advance_newline(c, pos) ==
    IF pos = c.last THEN [ok |-> FALSE, pos |-> pos]
    ELSE IF is_cr_char(Deref(c, pos))
    THEN IF pos + 1 # c.last /\ is_lf_char(Deref(c, pos + 1))
         THEN [ok |-> TRUE, pos |-> pos + 2]
         ELSE [ok |-> TRUE, pos |-> pos + 1]
    ELSE IF is_lf_char(Deref(c, pos))
    THEN [ok |-> TRUE, pos |-> pos + 1]
    ELSE [ok |-> FALSE, pos |-> pos]

----------------------------------------------------------------------------
(* prose-val *)

advance_prose(c, pos, ev) ==
    IF pos = c.last THEN Result(FALSE, pos, ev)
    ELSE IF Deref(c, pos) # Ord["<"] THEN Result(FALSE, pos, ev)
    ELSE Bind(SkipWhile(c, pos + 1, ProseValueChars), LAMBDA p :
         IF p = c.last THEN Result(FALSE, pos, ev)
         ELSE IF Deref(c, p) # Ord[">"] THEN Result(FALSE, pos, ev)
         ELSE commit_if(pos, p + 1,
                        Notify(c, ev, Event("prose", pos + 1, p, "", FALSE, FALSE))))

----------------------------------------------------------------------------
(* num-val *)

\* the loop `while (*p == '.')` of advance_number; `failed` tells that the
\* function returned false from inside the loop
RECURSIVE number_sequence(_, _, _, _, _, _)
number_sequence(c, p, ev, success, flag, S) ==
    IF Deref(c, p) # Ord["."]
    THEN [failed |-> FALSE, p |-> p, ev |-> Read(c, ev, p), success |-> success]
    ELSE Bind(Read(c, Read(c, ev, p), p + 1), LAMBDA ev1 :
         \* At least one digit character must exists
         IF Deref(c, p + 1) \notin S
         THEN [failed |-> TRUE, p |-> p + 1, ev |-> ev1, success |-> success]
         ELSE Bind(advance_chars(c, p + 1, S), LAMBDA run :
              IF ~run.ok
              THEN [failed |-> TRUE, p |-> p + 1, ev |-> ev1, success |-> success]
              ELSE IF success
              THEN Bind(Notify(c, ev1,
                               Event("next_number", p + 1, run.pos, flag, FALSE, FALSE)),
                        LAMBDA ev2 : number_sequence(c, run.pos, ev2, Ret(ev2), flag, S))
              ELSE number_sequence(c, run.pos, ev1, FALSE, flag, S)))

\* (mutant) a finish that tells last_number the empty span at the end always
number_finish_empty(c, pos, p, ev, success, flag, a, b) ==
    IF success
    THEN commit_if(pos, p, Notify(c, ev, Event("last_number", p, p, flag, FALSE, FALSE)))
    ELSE Result(FALSE, pos, ev)

\* `success = success && ctx.last_number(flag, a, b)` and the return statement
number_finish(c, pos, p, ev, success, flag, a, b) ==
    IF success
    THEN commit_if(pos, p, Notify(c, ev, Event("last_number", a, b, flag, FALSE, FALSE)))
    ELSE Result(FALSE, pos, ev)

\* behind the first number: p is its end, ev1 the trace with first_number
number_tail(c, pos, p, ev1, flag, S) ==
    IF p # c.last
    THEN IF Deref(c, p) = Ord["-"]
         THEN \* At least one digit character must exists
              IF Deref(c, p + 1) \notin S THEN Result(FALSE, pos, Read(c, ev1, p + 1))
              ELSE Bind(advance_chars(c, p + 1, S), LAMBDA run2 :
                   IF ~run2.ok THEN Result(FALSE, pos, Read(c, ev1, p + 1))
                   ELSE number_finish(c, pos, run2.pos, Read(c, ev1, p + 1), Ret(ev1),
                                      flag, p + 1, run2.pos))
         ELSE IF Deref(c, p) = Ord["."]
         THEN Bind(number_sequence(c, p, ev1, Ret(ev1), flag, S), LAMBDA seq :
              IF seq.failed THEN Result(FALSE, pos, seq.ev)
              ELSE \* Notify observer no more valid elements parsed
                   number_finish(c, pos, seq.p, seq.ev, seq.success, flag, seq.p, seq.p))
         ELSE number_finish(c, pos, p, ev1, Ret(ev1), flag, p, p)
    ELSE number_finish(c, pos, p, ev1, Ret(ev1), flag, p, p)

\* the first number in the digits S of the base `flag`
number_first(c, pos, ev, flag, S) ==
    Bind(advance_chars(c, pos + 2, S), LAMBDA run :
         IF ~run.ok THEN Result(FALSE, pos, ev)
         ELSE Bind(Notify(c, ev, Event("first_number", pos + 2, run.pos, flag, FALSE, FALSE)),
                   LAMBDA ev1 : number_tail(c, pos, run.pos, ev1, flag, S)))

advance_number(c, pos, ev) ==
    IF pos = c.last THEN Result(FALSE, pos, ev)
    ELSE IF Deref(c, pos) # Ord["%"] THEN Result(FALSE, pos, ev)
    ELSE IF pos + 1 = c.last THEN Result(FALSE, pos, ev)
    ELSE IF Deref(c, pos + 1) \notin {Ord["x"], Ord["d"], Ord["b"]} THEN Result(FALSE, pos, ev)
    ELSE IF pos + 2 = c.last THEN Result(FALSE, pos, ev)
    ELSE IF Deref(c, pos + 1) = Ord["x"]
    THEN number_first(c, pos, ev, "hexadecimal", HexDigitChars)
    ELSE IF Deref(c, pos + 1) = Ord["d"]
    THEN number_first(c, pos, ev, "decimal", DigitChars)
    ELSE number_first(c, pos, ev, "binary", BitChars)

----------------------------------------------------------------------------
(* char-val *)

\* the scan of advance_quoted_string from p on; `length` characters so far
RECURSIVE quoted_string_scan(_, _, _, _, _, _)

\* (mutant) a scan that takes every character up to the closing quote
quoted_string_scan_any(c, pos, first_pos, p, length, ev) ==
    IF p # c.last /\ ~is_dquote_char(Deref(c, p))
    THEN quoted_string_scan(c, pos, first_pos, p + 1, length + 1, ev)
    ELSE IF p = c.last
    THEN Result(FALSE, pos,
                Tell(ev, Event("error", first_pos, first_pos, "unbalanced_quote", FALSE, FALSE)))
    ELSE commit_if(pos, p + 1,
                   Notify(c, ev, Event("quoted_string", first_pos, p, "", FALSE, FALSE)))

quoted_string_scan(c, pos, first_pos, p, length, ev) ==
    IF p # c.last /\ ~is_dquote_char(Deref(c, p))
    THEN IF ~(is_visible_char(Deref(c, p)) \/ is_space_char(Deref(c, p)))
         THEN Result(FALSE, pos, Tell(ev, Event("error", p, p, "bad_quoted_char", FALSE, FALSE)))
         ELSE \* max_quoted_string_length() is 0: no limit, `length == max_length` is never true
              quoted_string_scan(c, pos, first_pos, p + 1, length + 1, ev)
    ELSE IF p = c.last
    THEN Result(FALSE, pos,
                Tell(ev, Event("error", first_pos, first_pos, "unbalanced_quote", FALSE, FALSE)))
    ELSE commit_if(pos, p + 1,
                   Notify(c, ev, Event("quoted_string", first_pos, p, "", FALSE, FALSE)))

advance_quoted_string(c, pos, ev) ==
    IF pos = c.last THEN Result(FALSE, pos, ev)
    ELSE IF ~is_dquote_char(Deref(c, pos)) THEN Result(FALSE, pos, ev)
    ELSE IF pos + 1 = c.last
    THEN Result(FALSE, pos,
                Tell(ev, Event("error", pos + 1, pos + 1, "unbalanced_quote", FALSE, FALSE)))
    ELSE quoted_string_scan(c, pos, pos + 1, pos + 1, 0, ev)

----------------------------------------------------------------------------
(* repeat *)

bad_repeat_range(pos, ev, near) ==
    Result(FALSE, pos, Tell(ev, Event("error", near, near, "bad_repeat_range", FALSE, FALSE)))

\* the checks of the two converted numbers; `high` is to.first, or the
\* maximum if the upper span is empty
repeat_check(c, pos, ev, from, to_second, high, first_from, first_to, p) ==
    IF ~from.second THEN bad_repeat_range(pos, ev, first_from)
    ELSE IF ~to_second THEN bad_repeat_range(pos, ev, first_to)
    ELSE IF from.first > high THEN bad_repeat_range(pos, ev, first_from)
    ELSE commit_if(pos, p, Notify(c, ev, Event("repeat", from.first, high, "", FALSE, FALSE)))

\* the two conversions; an overflow they execute is marked in the trace
repeat_convert(c, pos, ev, from, to, first_from, first_to, no_upper, p) ==
    IF from.trapped \/ to.trapped
    THEN Result(FALSE, pos, Tell(ev, Event(Abort, pos, pos, "", FALSE, FALSE)))
    ELSE repeat_check(c, pos,
                      IF from.ubhit \/ to.ubhit
                      THEN Tell(ev, Event(Overflow, pos, pos, "", FALSE, FALSE)) ELSE ev,
                      from, to.second, IF no_upper THEN LongMax ELSE to.first,
                      first_from, first_to, p)

\* behind the do-while: the spans are known and p is behind the repeat
repeat_finish(c, pos, ev, last_from, first_to, last_to, p) ==
    IF p = pos THEN Result(FALSE, pos, ev)
    ELSE repeat_convert(c, pos, ev,
                        to_decimal_number(Span(c, pos, last_from), c.ub),
                        to_decimal_number(Span(c, first_to, last_to), c.ub),
                        pos, first_to, first_to = last_to, p)

\* the do-while with p1 behind the leading digits (p1 = pos if there are none)
repeat_scan(c, pos, ev, p1) ==
    \* Success, is exact limit
    IF p1 # pos /\ p1 = c.last THEN repeat_finish(c, pos, ev, p1, pos, p1, p1)
    ELSE IF Deref(c, p1) # Ord["*"] THEN repeat_finish(c, pos, ev, p1, pos, pos, p1)
    ELSE IF p1 + 1 # c.last /\ is_digit_char(Deref(c, p1 + 1))
    THEN repeat_finish(c, pos, ev, p1, p1 + 1, SkipWhile(c, p1 + 1, DigitChars),
                       SkipWhile(c, p1 + 1, DigitChars))
    \* Success, second part is empty
    ELSE repeat_finish(c, pos, ev, p1, pos, pos, p1 + 1)

advance_repeat(c, pos, ev) ==
    IF pos = c.last THEN Result(FALSE, pos, ev)
    ELSE repeat_scan(c, pos, ev,
                     IF is_digit_char(Deref(c, pos)) THEN SkipWhile(c, pos, DigitChars)
                     ELSE pos)

----------------------------------------------------------------------------
(* comment, c-nl, c-wsp *)

NotNewlineChars == (0..127) \ {Ord["CR"], Ord["LF"]}

advance_comment(c, pos) ==
    IF pos = c.last THEN [ok |-> FALSE, pos |-> pos]
    ELSE IF Deref(c, pos) # Ord[";"] THEN [ok |-> FALSE, pos |-> pos]
    ELSE Bind(SkipWhile(c, pos + 1, NotNewlineChars), LAMBDA p :
         IF p # c.last
         THEN Bind(advance_newline(c, p), LAMBDA nl : [ok |-> nl.pos # pos, pos |-> nl.pos])
         ELSE [ok |-> p # pos, pos |-> p])

advance_comment_newline(c, pos) ==
    Bind(advance_newline(c, pos), LAMBDA nl :
         IF nl.ok THEN nl ELSE advance_comment(c, pos))

advance_comment_whitespace(c, pos) ==
    IF pos = c.last THEN [ok |-> FALSE, pos |-> pos]
    ELSE IF is_whitespace_char(Deref(c, pos)) THEN [ok |-> TRUE, pos |-> pos + 1]
    ELSE Bind(advance_comment_newline(c, pos), LAMBDA cnl :
         IF cnl.ok
         THEN IF cnl.pos = c.last THEN [ok |-> FALSE, pos |-> pos]
              ELSE IF ~is_whitespace_char(Deref(c, cnl.pos)) THEN [ok |-> FALSE, pos |-> pos]
              ELSE [ok |-> TRUE, pos |-> cnl.pos + 1]
         ELSE [ok |-> FALSE, pos |-> pos])

\* while (advance_comment_whitespace(p, last)) ;
RECURSIVE skip_comment_whitespace(_, _)
skip_comment_whitespace(c, p) ==
    Bind(advance_comment_whitespace(c, p), LAMBDA r :
         IF r.ok THEN skip_comment_whitespace(c, r.pos) ELSE p)

\* LWSP = *(WSP / newline WSP); true iff it moved the cursor
RECURSIVE skip_linear_whitespace(_, _)
skip_linear_whitespace(c, p) ==
    IF p = c.last THEN p
    ELSE IF is_whitespace_char(Deref(c, p)) THEN skip_linear_whitespace(c, p + 1)
    ELSE Bind(advance_newline(c, p), LAMBDA nl :
         IF nl.ok /\ nl.pos # c.last /\ is_whitespace_char(Deref(c, nl.pos))
         THEN skip_linear_whitespace(c, nl.pos + 1)
         ELSE p)

advance_linear_whitespace(c, pos) ==
    Bind(skip_linear_whitespace(c, pos), LAMBDA p : [ok |-> p # pos, pos |-> p])

----------------------------------------------------------------------------
(* rulename *)

RulenameChars == AlphaChars \cup DigitChars \cup {Ord["-"]}

\* ok, the cursor, the name's span, and the trace (the first read is unguarded)
advance_rulename_helper(c, pos, ev) ==
    IF ~is_alpha_char(Deref(c, pos))
    THEN [ok |-> FALSE, pos |-> pos, first |-> pos, last |-> pos, ev |-> Read(c, ev, pos)]
    ELSE Bind(SkipWhile(c, pos + 1, RulenameChars), LAMBDA p :
         [ok |-> p # pos, pos |-> p, first |-> pos, last |-> p, ev |-> Read(c, ev, pos)])

advance_rulename(c, pos, ev) ==
    IF pos = c.last THEN Result(FALSE, pos, ev)
    ELSE Bind(advance_rulename_helper(c, pos, ev), LAMBDA h :
         IF ~h.ok THEN Result(FALSE, h.pos, h.ev)
         ELSE Bind(Notify(c, h.ev, Event("rulename", h.first, h.last, "", FALSE, FALSE)),
                   LAMBDA ev1 : Result(Ret(ev1), h.pos, ev1)))

----------------------------------------------------------------------------
(* The mutually recursive advancers and the repetition driver *)

\* the sub-parser of the driver's test: one ALPHA character, read without a
\* look at `last`; each application is noted in the trace
alpha_matcher(c, pos, ev) ==
    IF is_alpha_char(Deref(c, pos))
    THEN Result(TRUE, pos + 1,
                Append(Read(c, ev, pos), Event("apply", pos, pos + 1, "", FALSE, TRUE)))
    ELSE Result(FALSE, pos,
                Append(Read(c, ev, pos), Event("apply", pos, pos, "", FALSE, FALSE)))

RECURSIVE Advance(_, _, _, _)
RECURSIVE repetition_loop(_, _, _, _, _, _)
RECURSIVE repetition_step(_, _, _, _, _, _)

\* ranges of the repetition driver (generator.hpp)
make_range(low) == [first |-> low, second |-> 2147483647]
unlimited_range == [first |-> 0, second |-> 2147483647]

\* the loop of advance_repetition_by_range: apply op while it succeeds, at
\* most range.second times
repetition_loop(c, p, ev, count, range, f) ==
    IF count >= range.second THEN [p |-> p, ev |-> ev, count |-> count]
    ELSE repetition_step(c, p, count, range, f, Advance(f, c, p, ev))

\* ... r is what op returned
repetition_step(c, p, count, range, f, r) ==
    IF r.ok THEN repetition_loop(c, r.pos, r.ev, count + 1, range, f)
    ELSE [p |-> p, ev |-> r.ev, count |-> count]

\* (mutant) a result that keeps the cursor of the loop on failure
repetition_result_keeps(pos, range, l) ==
    IF l.count >= range.first THEN Result(TRUE, l.p, l.ev)
    ELSE Result(FALSE, l.p, l.ev)

repetition_result(pos, range, l) ==
    IF l.count >= range.first THEN Result(TRUE, l.p, l.ev)
    ELSE Result(FALSE, pos, l.ev)

\* advance_repetition_by_range(pos, last, range, op): true iff op succeeded
\* between range.first and range.second times; pos moves only then
advance_repetition_by_range(c, pos, ev, range, f) ==
    IF range.first > range.second THEN Result(FALSE, pos, ev)
    ELSE repetition_result(pos, range, repetition_loop(c, pos, ev, 0, range, f))

\* success = ctx.end_x(success) && success; return success
end_result(r, ev2) == Result(Ret(ev2) /\ r.ok, r.pos, ev2)
end_bracket(c, r, cb) ==
    end_result(r, Notify(c, r.ev, Event(cb, 0, 0, "", FALSE, r.ok)))

\* success = ctx.begin_x(); success = success && advance_y(pos, last, ctx)
begin_then(name, c, pos, ev1) ==
    IF Ret(ev1) THEN Advance(name, c, pos, ev1) ELSE Result(FALSE, pos, ev1)

\* if (!advance_y(p, last, ctx)) return false; return compare_and_assign(pos, p)
tail_commit(pos, r) ==
    IF ~r.ok THEN Result(FALSE, pos, r.ev) ELSE compare_and_assign(pos, r.pos, r.ev)

\* a || advance_y(pos, last, ctx): the next alternative gets the cursor
\* the one before it left
element_or(name, c, r) == IF r.ok THEN r ELSE Advance(name, c, r.pos, r.ev)

\* element = rulename / group / option / num-val / char-val / prose-val
advance_element(c, pos, ev) ==
    IF pos = c.last THEN Result(FALSE, pos, ev)
    ELSE element_or("advance_prose", c,
         element_or("advance_quoted_string", c,
         element_or("advance_number", c,
         element_or("advance_option", c,
         element_or("advance_group", c, advance_rulename(c, pos, ev))))))

\* advance_repeat has run (its result is ignored, its cursor kept)
repetition_element(c, success, rp) ==
    IF success THEN Advance("advance_element", c, rp.pos, rp.ev)
    ELSE Result(FALSE, rp.pos, rp.ev)

repetition_begin(c, pos, ev1) ==
    end_bracket(c, repetition_element(c, Ret(ev1), advance_repeat(c, pos, ev1)),
                "end_repetition")

\* repetition = [repeat] element
advance_repetition(c, pos, ev) ==
    IF pos = c.last THEN Result(FALSE, pos, ev)
    ELSE repetition_begin(c, pos,
                          Notify(c, ev, Event("begin_repetition", 0, 0, "", FALSE, FALSE)))

concatenation_tail_repetition(c, pos, ws) ==
    IF ~ws.ok THEN Result(FALSE, pos, ws.ev)
    ELSE tail_commit(pos, Advance("advance_repetition", c, ws.pos, ws.ev))

\* the sub-parser of the loop of advance_concatenation: 1*c-wsp repetition
concatenation_tail(c, pos, ev) ==
    concatenation_tail_repetition(
        c, pos, advance_repetition_by_range(c, pos, ev, make_range(1), "c-wsp"))

concatenation_more(c, rep) ==
    IF rep.ok
    THEN advance_repetition_by_range(c, rep.pos, rep.ev, unlimited_range,
                                     "concatenation_tail")
    ELSE rep

\* concatenation = repetition *(1*c-wsp repetition)
advance_concatenation(c, pos, ev) ==
    IF pos = c.last THEN Result(FALSE, pos, ev)
    ELSE end_bracket(
             c,
             \* At least one repetition need
             concatenation_more(
                 c,
                 begin_then("advance_repetition", c, pos,
                            Notify(c, ev,
                                   Event("begin_concatenation", 0, 0, "", FALSE, FALSE)))),
             "end_concatenation")

\* ... p is behind the leading c-wsp
alternation_tail_slash(c, pos, ev, p) ==
    IF p = c.last THEN Result(FALSE, pos, ev)
    ELSE IF Deref(c, p) # Ord["/"] THEN Result(FALSE, pos, ev)
    ELSE IF p + 1 = c.last THEN Result(FALSE, pos, ev)
    ELSE tail_commit(
             pos, Advance("advance_concatenation", c, skip_comment_whitespace(c, p + 1), ev))

\* the sub-parser of the loop of advance_alternation:
\* *c-wsp "/" *c-wsp concatenation
alternation_tail(c, pos, ev) ==
    alternation_tail_slash(c, pos, ev, skip_comment_whitespace(c, pos))

alternation_more(c, cat) ==
    IF cat.ok
    THEN advance_repetition_by_range(c, cat.pos, cat.ev, unlimited_range, "alternation_tail")
    ELSE cat

\* alternation = concatenation *(*c-wsp "/" *c-wsp concatenation)
advance_alternation(c, pos, ev) ==
    IF pos = c.last THEN Result(FALSE, pos, ev)
    ELSE end_bracket(
             c,
             alternation_more(
                 c,
                 begin_then("advance_concatenation", c, pos,
                            Notify(c, ev,
                                   Event("begin_alternation", 0, 0, "", FALSE, FALSE)))),
             "end_alternation")

\* ... q is behind the trailing c-wsp; *q is read without a look at `last`
group_close(c, pos, closing_bracket, ev, q) ==
    IF Deref(c, q) # closing_bracket THEN Result(FALSE, pos, Read(c, ev, q))
    ELSE compare_and_assign(pos, q + 1, Read(c, ev, q))

group_tail(c, pos, closing_bracket, alt) ==
    IF ~alt.ok THEN Result(FALSE, pos, alt.ev)
    ELSE group_close(c, pos, closing_bracket, alt.ev, skip_comment_whitespace(c, alt.pos))

\* ... p is behind the opening bracket and the leading c-wsp
group_body(c, pos, ev, closing_bracket, p) ==
    IF p = c.last THEN Result(FALSE, pos, ev)
    ELSE group_tail(c, pos, closing_bracket, Advance("advance_alternation", c, p, ev))

\* group  = "(" *c-wsp alternation *c-wsp ")"
\* option = "[" *c-wsp alternation *c-wsp "]"
advance_group_or_option(c, pos, ev) ==
    IF pos = c.last THEN Result(FALSE, pos, ev)
    ELSE IF Deref(c, pos) \notin {Ord["("], Ord["["]} THEN Result(FALSE, pos, ev)
    ELSE group_body(c, pos, ev,
                    IF Deref(c, pos) = Ord["("] THEN Ord[")"] ELSE Ord["]"],
                    skip_comment_whitespace(c, pos + 1))

\* (mutant) a group that returns at once when begin_group is refused
advance_group_no_end(c, pos, ev) ==
    IF pos = c.last THEN Result(FALSE, pos, ev)
    ELSE IF Deref(c, pos) # Ord["("] THEN Result(FALSE, pos, ev)
    ELSE IF Vetoes(c, ev)
    THEN Result(FALSE, pos, Notify(c, ev, Event("begin_group", 0, 0, "", FALSE, FALSE)))
    ELSE end_bracket(
             c,
             begin_then("advance_group_or_option", c, pos,
                        Notify(c, ev, Event("begin_group", 0, 0, "", FALSE, FALSE))),
             "end_group")

advance_group(c, pos, ev) ==
    IF pos = c.last THEN Result(FALSE, pos, ev)
    ELSE IF Deref(c, pos) # Ord["("] THEN Result(FALSE, pos, ev)
    ELSE end_bracket(
             c,
             begin_then("advance_group_or_option", c, pos,
                        Notify(c, ev, Event("begin_group", 0, 0, "", FALSE, FALSE))),
             "end_group")

advance_option(c, pos, ev) ==
    IF pos = c.last THEN Result(FALSE, pos, ev)
    ELSE IF Deref(c, pos) # Ord["["] THEN Result(FALSE, pos, ev)
    ELSE end_bracket(
             c,
             begin_then("advance_group_or_option", c, pos,
                        Notify(c, ev, Event("begin_option", 0, 0, "", FALSE, FALSE))),
             "end_option")

\* ... p is behind the leading c-wsp
defined_as_sign(c, pos, p, inc) ==
    Bind(skip_comment_whitespace(c, IF inc THEN p + 2 ELSE p + 1), LAMBDA q :
         [ok |-> q # pos, pos |-> q, inc |-> inc])

defined_as_at(c, pos, p) ==
    IF p = c.last THEN [ok |-> FALSE, pos |-> pos, inc |-> FALSE]
    ELSE IF Deref(c, p) # Ord["="] THEN [ok |-> FALSE, pos |-> pos, inc |-> FALSE]
    ELSE defined_as_sign(c, pos, p, p + 1 # c.last /\ Deref(c, p + 1) = Ord["/"])

\* defined-as = *c-wsp ("=" / "=/") *c-wsp
advance_defined_as(c, pos) ==
    IF pos = c.last THEN [ok |-> FALSE, pos |-> pos, inc |-> FALSE]
    ELSE defined_as_at(c, pos, skip_comment_whitespace(c, pos))

elements_tail(c, pos, alt) ==
    IF ~alt.ok THEN Result(FALSE, pos, alt.ev)
    ELSE compare_and_assign(pos, skip_comment_whitespace(c, alt.pos), alt.ev)

\* elements = alternation *c-wsp
advance_elements(c, pos, ev) ==
    elements_tail(c, pos, Advance("advance_alternation", c, pos, ev))

\* return success && compare_and_assign(pos, p)
rule_return(pos, success, p, ev2) ==
    IF Ret(ev2) /\ success THEN compare_and_assign(pos, p, ev2)
    ELSE Result(FALSE, pos, ev2)

\* (mutant) a rule that tells end_rule success = true whatever happened
rule_end_true(c, pos, name, inc, ev, success, p) ==
    rule_return(pos, success,
                IF success THEN skip_linear_whitespace(c, p) ELSE p,
                Notify(c, ev, Event("end_rule", name.first, name.last, "", inc, TRUE)))

\* the continuation lines, then end_rule
rule_end(c, pos, name, inc, ev, success, p) ==
    rule_return(pos, success,
                IF success THEN skip_linear_whitespace(c, p) ELSE p,
                Notify(c, ev, Event("end_rule", name.first, name.last, "", inc, success)))

rule_newline(c, pos, name, inc, els, cnl) ==
    rule_end(c, pos, name, inc, els.ev, els.ok /\ cnl.ok, cnl.pos)

\* (mutant) a rule that never asks for c-nl
rule_elements_no_newline(c, pos, name, inc, els) ==
    rule_newline(c, pos, name, inc, els, [ok |-> els.ok, pos |-> els.pos])

\* c-nl is asked for only if input is left
rule_elements(c, pos, name, inc, els) ==
    rule_newline(c, pos, name, inc, els,
                 IF els.pos # c.last /\ els.ok THEN advance_comment_newline(c, els.pos)
                 ELSE [ok |-> els.ok, pos |-> els.pos])

rule_defined(c, pos, name, def) ==
    IF ~def.ok THEN Result(FALSE, pos, name.ev)
    ELSE rule_elements(
             c, pos, name, def.inc,
             begin_then("advance_elements", c, def.pos,
                        Notify(c, name.ev,
                               Event("begin_rule", name.first, name.last, "", def.inc,
                                     FALSE))))

rule_named(c, pos, name) ==
    IF ~name.ok THEN Result(FALSE, pos, name.ev)
    ELSE rule_defined(c, pos, name, advance_defined_as(c, name.pos))

\* rule = rulename defined-as elements c-nl
advance_rule(c, pos, ev) ==
    IF pos = c.last THEN Result(FALSE, pos, ev)
    ELSE rule_named(c, pos, advance_rulename_helper(c, pos, ev))

rulelist_newline(pos, ev, cnl) ==
    IF ~cnl.ok THEN Result(FALSE, pos, ev) ELSE compare_and_assign(pos, cnl.pos, ev)

\* (mutant) a blank line that returns true without comparing the cursors
rulelist_blank_true(c, pos, ev, p) ==
    IF p # c.last THEN rulelist_newline(pos, ev, advance_comment_newline(c, p))
    ELSE Result(TRUE, p, ev)

\* ... no rule; p is behind the c-wsp
rulelist_blank(c, pos, ev, p) ==
    IF p # c.last THEN rulelist_newline(pos, ev, advance_comment_newline(c, p))
    ELSE compare_and_assign(pos, p, ev)

rulelist_rule(c, pos, rule) ==
    IF rule.ok THEN compare_and_assign(pos, rule.pos, rule.ev)
    ELSE rulelist_blank(c, pos, rule.ev, skip_comment_whitespace(c, pos))

\* the sub-parser of the loop of advance_rulelist: rule / (*c-wsp c-nl)
rulelist_item(c, pos, ev) ==
    rulelist_rule(c, pos, Advance("advance_rule", c, pos, ev))

rulelist_begin(c, pos, ev1) ==
    IF Ret(ev1) THEN advance_repetition_by_range(c, pos, ev1, make_range(1), "rulelist_item")
    ELSE Result(FALSE, pos, ev1)

\* rulelist = 1*( rule / (*c-wsp c-nl) )
advance_rulelist(c, pos, ev) ==
    end_bracket(c,
                rulelist_begin(c, pos,
                               Notify(c, ev,
                                      Event("begin_document", 0, 0, "", FALSE, FALSE))),
                "end_document")

\* the advancers, and the sub-parsers handed to advance_repetition_by_range,
\* by name
Advance(name, c, pos, ev) ==
    CASE name = "advance_prose" -> advance_prose(c, pos, ev)
      [] name = "advance_number" -> advance_number(c, pos, ev)
      [] name = "advance_quoted_string" -> advance_quoted_string(c, pos, ev)
      [] name = "advance_repeat" -> advance_repeat(c, pos, ev)
      [] name = "advance_rulename" -> advance_rulename(c, pos, ev)
      [] name = "advance_element" -> advance_element(c, pos, ev)
      [] name = "advance_repetition" -> advance_repetition(c, pos, ev)
      [] name = "advance_concatenation" -> advance_concatenation(c, pos, ev)
      [] name = "advance_alternation" -> advance_alternation(c, pos, ev)
      [] name = "advance_group_or_option" -> advance_group_or_option(c, pos, ev)
      [] name = "advance_group" -> advance_group(c, pos, ev)
      [] name = "advance_option" -> advance_option(c, pos, ev)
      [] name = "advance_defined_as" ->
            Bind(advance_defined_as(c, pos), LAMBDA r : Result(r.ok, r.pos, ev))
      [] name = "advance_elements" -> advance_elements(c, pos, ev)
      [] name = "advance_rule" -> advance_rule(c, pos, ev)
      [] name = "advance_rulelist" -> advance_rulelist(c, pos, ev)
      [] name = "c-wsp" ->
            Bind(advance_comment_whitespace(c, pos), LAMBDA r : Result(r.ok, r.pos, ev))
      [] name = "concatenation_tail" -> concatenation_tail(c, pos, ev)
      [] name = "alternation_tail" -> alternation_tail(c, pos, ev)
      [] name = "rulelist_item" -> rulelist_item(c, pos, ev)
      [] name = "alpha_matcher" -> alpha_matcher(c, pos, ev)
      [] name = "advance_linear_whitespace" ->
            Bind(advance_linear_whitespace(c, pos), LAMBDA r : Result(r.ok, r.pos, ev))

----------------------------------------------------------------------------
(* Specification of the parser: one call of one advancer on one input *)

\* concatenation of a sequence of sequences
RECURSIVE Flatten(_)
Flatten(ss) == IF Len(ss) = 0 THEN <<>> ELSE Head(ss) \o Flatten(Tail(ss))

\* the pieces the parsed texts are made of
Fragments ==
    {<<"a">>, <<" ">>, <<"3">>, <<"5", "*", "3">>, <<"*">>, <<"\"", "a", "\"">>,
     <<"\"", "a">>, <<"(", "a">>, <<")">>, <<"[", "a", "]">>, <<"%", "x", "3">>,
     <<"-", "3">>, <<".", "3">>, <<"<", "a", ">">>, <<"/">>, <<";", "a">>, <<"CR", "LF">>}
\* ... for the observers that veto
VetoFragments == {<<"a">>, <<" ">>, <<"/">>, <<"(", "a", ")">>, <<"3">>}
\* what precedes the body, and where the call starts
Openings ==
    {[pre |-> <<>>, at |-> 1],
     [pre |-> <<"r", " ", "=", " ">>, at |-> 1],
     [pre |-> <<"r", " ", "=", "/", " ">>, at |-> 1],
     [pre |-> <<"r", " ", "=", "/", " ">>, at |-> 6]}
Closings == {<<>>, <<"CR", "LF">>}

Texts(frags) ==
    {[s |-> Str(o.pre \o Flatten(body) \o cl), at |-> o.at] :
        o \in Openings, body \in SeqsUpTo(frags, MaxParts), cl \in Closings}

\* the bytes a read through the end iterator may find
PastEndBytes == {Ord["NUL"], Ord[")"], Ord["."]}

NoResult == [ok |-> FALSE, pos |-> 0, ev |-> <<>>, aborted |-> FALSE]

Init ==
    /\ \E t \in Texts(Fragments) : input = t.s /\ start = t.at
    /\ vetoAt = 0
    /\ sticky = FALSE
    /\ oob = Ord["NUL"]
    /\ ub = "wrap"
    /\ op = "idle"
    /\ res = NoResult

InitVeto ==
    /\ \E t \in Texts(VetoFragments) : input = t.s /\ start = t.at
    /\ vetoAt \in 0..MaxVeto
    /\ sticky \in BOOLEAN
    /\ oob = Ord["NUL"]
    /\ ub = "wrap"
    /\ op = "idle"
    /\ res = NoResult

HasMark(ev, m) == \E i \in DOMAIN ev : ev[i].cb = m

\* what the caller sees: a call that trapped returns nothing, and nothing of
\* the trace behind the trap happened
Outcome(r) ==
    IF HasMark(r.ev, Abort)
    THEN LET k == CHOOSE i \in DOMAIN r.ev :
                      r.ev[i].cb = Abort /\ \A j \in 1..(i - 1) : r.ev[j].cb # Abort
         IN  [ok |-> FALSE, pos |-> start, ev |-> SubSeq(r.ev, 1, k), aborted |-> TRUE]
    ELSE [ok |-> r.ok, pos |-> r.pos, ev |-> r.ev, aborted |-> FALSE]

\* what a call leaves behind: its outcome, and the byte behind the input and
\* the build's overflow behaviour if the call met them
Observe(r, o, u) ==
    /\ res' = Outcome(r)
    /\ oob' = IF HasMark(r.ev, DerefEnd) THEN o ELSE Ord["NUL"]
    /\ ub' = IF HasMark(r.ev, Overflow) \/ HasMark(r.ev, Abort) THEN u ELSE "wrap"

\* the byte behind the input and the build's overflow behaviour are chosen
\* only for a call that reads the one or executes the other; r0 is the call
\* with NUL and a wrapping build
CallFrom(name, r0) ==
    IF \A i \in DOMAIN r0.ev : r0.ev[i].cb \notin Marks
    THEN Observe(r0, Ord["NUL"], "wrap")
    ELSE \E o \in PastEndBytes, u \in {"wrap", "trap"} :
            Observe(Advance(name, Ctx(input, vetoAt, sticky, o, u), start, <<>>), o, u)

\* one call advance_X(pos, last, ctx) with pos = start and an empty trace
Call(name) ==
    /\ CallFrom(name,
                Advance(name, Ctx(input, vetoAt, sticky, Ord["NUL"], "wrap"), start, <<>>))
    /\ op' = name
    /\ UNCHANGED <<input, start, vetoAt, sticky>>

Call_advance_prose == op = "idle" /\ Call("advance_prose")
Call_advance_number == op = "idle" /\ Call("advance_number")
Call_advance_quoted_string == op = "idle" /\ Call("advance_quoted_string")
Call_advance_repeat == op = "idle" /\ Call("advance_repeat")
Call_advance_rulename == op = "idle" /\ Call("advance_rulename")
Call_advance_element == op = "idle" /\ Call("advance_element")
Call_advance_repetition == op = "idle" /\ Call("advance_repetition")
Call_advance_concatenation == op = "idle" /\ Call("advance_concatenation")
Call_advance_alternation == op = "idle" /\ Call("advance_alternation")
Call_advance_group == op = "idle" /\ Call("advance_group")
Call_advance_option == op = "idle" /\ Call("advance_option")
Call_advance_defined_as == op = "idle" /\ Call("advance_defined_as")
Call_advance_elements == op = "idle" /\ Call("advance_elements")
Call_advance_rule == op = "idle" /\ Call("advance_rule")
Call_advance_rulelist == op = "idle" /\ Call("advance_rulelist")

Next ==
    \/ Call_advance_prose
    \/ Call_advance_number
    \/ Call_advance_quoted_string
    \/ Call_advance_repeat
    \/ Call_advance_rulename
    \/ Call_advance_element
    \/ Call_advance_repetition
    \/ Call_advance_concatenation
    \/ Call_advance_alternation
    \/ Call_advance_group
    \/ Call_advance_option
    \/ Call_advance_defined_as
    \/ Call_advance_elements
    \/ Call_advance_rule
    \/ Call_advance_rulelist

Spec == Init /\ [][Next]_vars

SpecVeto == InitVeto /\ [][Next]_vars

----------------------------------------------------------------------------
(* Reading a trace *)

Advancers ==
    {"advance_prose", "advance_number", "advance_quoted_string", "advance_repeat",
     "advance_rulename", "advance_element", "advance_repetition",
     "advance_concatenation", "advance_alternation", "advance_group", "advance_option",
     "advance_defined_as", "advance_elements", "advance_rule", "advance_rulelist"}

\* the call returned to its caller
Returned == op \in Advancers /\ ~res.aborted

BracketKind ==
    ("begin_document" :> "document") @@ ("end_document" :> "document")
    @@ ("begin_rule" :> "rule") @@ ("end_rule" :> "rule")
    @@ ("begin_alternation" :> "alternation") @@ ("end_alternation" :> "alternation")
    @@ ("begin_concatenation" :> "concatenation") @@ ("end_concatenation" :> "concatenation")
    @@ ("begin_repetition" :> "repetition") @@ ("end_repetition" :> "repetition")
    @@ ("begin_group" :> "group") @@ ("end_group" :> "group")
    @@ ("begin_option" :> "option") @@ ("end_option" :> "option")

\* the brackets still open after ev[i..], given those open before; a
\* closing event that does not close the innermost open bracket leaves
\* <<"mismatch">>
RECURSIVE Unclosed(_, _, _)
Unclosed(ev, i, stack) ==
    IF i > Len(ev) THEN stack
    ELSE IF ev[i].cb \in BeginCallbacks
    THEN Unclosed(ev, i + 1, Append(stack, BracketKind[ev[i].cb]))
    ELSE IF ev[i].cb \in EndCallbacks
    THEN IF Len(stack) > 0 /\ stack[Len(stack)] = BracketKind[ev[i].cb]
         THEN Unclosed(ev, i + 1, SubSeq(stack, 1, Len(stack) - 1))
         ELSE <<"mismatch">>
    ELSE Unclosed(ev, i + 1, stack)

WellNested(ev) == Unclosed(ev, 1, <<>>) = <<>>

\* begin events minus end events among ev[a..b]
Depth(ev, a, b) ==
    Cardinality({m \in a..b : ev[m].cb \in BeginCallbacks})
    - Cardinality({m \in a..b : ev[m].cb \in EndCallbacks})

\* the end event of the bracket that ev[j] opens (0 if there is none)
MatchEnd(ev, j) ==
    LET ks == {k \in (j + 1)..Len(ev) :
                  /\ Depth(ev, j + 1, k) = -1
                  /\ \A m \in (j + 1)..(k - 1) : Depth(ev, j + 1, m) >= 0}
    IN  IF ks = {} THEN 0 ELSE CHOOSE k \in ks : TRUE

\* the callbacks the observer refused
Vetoed(ev) == {i \in DOMAIN ev : ev[i].cb \in BoolCallbacks /\ ~ev[i].ret}
ErrorsOf(ev) == {i \in DOMAIN ev : ev[i].cb = "error"}
\* the call executed no undefined behaviour
Defined(ev) == \A i \in DOMAIN ev : ev[i].cb \notin Marks

AcceptCallbacks == {"accept_basic_rule_definition", "accept_incremental_alternatives"}

----------------------------------------------------------------------------
(* Claims about the advancers *)

\* C1: with an observer that never vetoes, an advancer that returns false
\* without having called observer.error leaves the caller's cursor where
\* it was.
C1_Rollback ==
    (Returned /\ vetoAt = 0 /\ Defined(res.ev) /\ ~res.ok /\ ErrorsOf(res.ev) = {})
        => res.pos = start

\* C2: in the trace of one advance_rulelist call, whatever the observer
\* vetoes, every begin_* event is closed by exactly one end_* event of its
\* kind, and an end_* event always closes the innermost open bracket.
C2_BracketsNest ==
    (Returned /\ op = "advance_rulelist") => WellNested(res.ev)

\* a vetoing observer refused a callback inside a group inside a rule, and
\* the call returned
C2_Witness ==
    /\ Returned /\ op = "advance_rulelist"
    /\ \E i \in Vetoed(res.ev) :
          /\ \E j \in 1..(i - 1) : res.ev[j].cb = "begin_group" /\ MatchEnd(res.ev, j) > i
          /\ i < Len(res.ev) - 3

\* C3: if a boolean callback returns false during advance_rulelist, every
\* bracket open at that moment gets its end_* event with success = false,
\* and advance_rulelist returns false.
C3_VetoUnwinds ==
    (Returned /\ op = "advance_rulelist") =>
        \A i \in Vetoed(res.ev) :
            /\ ~res.ok
            /\ \A j \in 1..i :
                  (res.ev[j].cb \in BeginCallbacks /\ MatchEnd(res.ev, j) > i)
                      => ~res.ev[MatchEnd(res.ev, j)].arg

\* C4: if a callback invoked by an advancer returns false, the advancer
\* returns false and leaves the caller's cursor at its value before the
\* call.
C4_VetoRollsBack ==
    (Returned /\ Vetoed(res.ev) # {}) => (~res.ok /\ res.pos = start)

\* C5: between begin_rule and end_rule(success = true) exactly one accept
\* callback fires, accept_incremental_alternatives for an incremental rule
\* and accept_basic_rule_definition otherwise; none fires for a rule whose
\* end_rule carries success = false.
C5_AcceptSignal ==
    (Returned /\ op \in {"advance_rule", "advance_rulelist"}) =>
        \A j \in DOMAIN res.ev :
            res.ev[j].cb = "begin_rule" =>
                LET k == MatchEnd(res.ev, j)
                    accepts == {m \in (j + 1)..(k - 1) : res.ev[m].cb \in AcceptCallbacks}
                IN  IF res.ev[k].arg
                    THEN /\ Cardinality(accepts) = 1
                         /\ \A m \in accepts :
                               res.ev[m].cb = IF res.ev[j].inc
                                              THEN "accept_incremental_alternatives"
                                              ELSE "accept_basic_rule_definition"
                    ELSE accepts = {}

\* the text is a rule whose elements start with a double quote that no
\* later double quote closes
RuleBodyStart == IF Len(input) >= 4 /\ input[4] = Ord["/"] THEN 6 ELSE 5
Unterminated ==
    /\ Len(input) >= RuleBodyStart
    /\ SubSeq(input, 1, 3) = Str(<<"r", " ", "=">>)
    /\ start = 1
    /\ input[RuleBodyStart] = Ord["\""]
    /\ \A i \in (RuleBodyStart + 1)..Len(input) : input[i] # Ord["\""]
\* ... and the text ends with CR LF
EndsWithNewline ==
    Len(input) >= 2 /\ SubSeq(input, Len(input) - 1, Len(input)) = Str(<<"CR", "LF">>)
\* the characters behind the quote that a quoted string cannot hold
NotQuotable ==
    {i \in (RuleBodyStart + 1)..Len(input) :
        ~(is_visible_char(input[i]) \/ is_space_char(input[i]))}
Min(S) == CHOOSE x \in S : \A y \in S : x <= y

AllClosedFalse(ev) ==
    /\ WellNested(ev)
    /\ \A i \in DOMAIN ev : ev[i].cb \in EndCallbacks => ~ev[i].arg

\* C7 (as claimed): for a rule with an unterminated quoted string followed
\* by CR LF, advance_rulelist reports error(unbalanced_quote), returns
\* false and closes every bracket with success = false.
C7_UnbalancedQuoteReported ==
    (Returned /\ op = "advance_rulelist" /\ vetoAt = 0 /\ Unterminated /\ EndsWithNewline) =>
        /\ \E i \in ErrorsOf(res.ev) : res.ev[i].flag = "unbalanced_quote"
        /\ ~res.ok
        /\ AllClosedFalse(res.ev)

\* C7 (amended): for a rule with an unterminated quoted string,
\* advance_rulelist reports exactly one error, bad_quoted_char at the first
\* byte behind the quote that is neither SP nor VCHAR (the CR of a
\* following line terminator), and unbalanced_quote at the start of the
\* string only if the input ends before any such byte; it returns false
\* and closes every bracket with success = false.
C7_UnterminatedString ==
    (Returned /\ op = "advance_rulelist" /\ vetoAt = 0 /\ Unterminated) =>
        /\ Cardinality(ErrorsOf(res.ev)) = 1
        /\ \A i \in ErrorsOf(res.ev) :
              IF NotQuotable # {}
              THEN res.ev[i].flag = "bad_quoted_char" /\ res.ev[i].a = Min(NotQuotable)
              ELSE res.ev[i].flag = "unbalanced_quote" /\ res.ev[i].a = RuleBodyStart + 1
        /\ ~res.ok
        /\ AllClosedFalse(res.ev)

\* the rule `r = "a` followed by CR LF was parsed and the error reported
C7_Witness ==
    /\ Returned /\ op = "advance_rulelist" /\ vetoAt = 0 /\ Unterminated /\ EndsWithNewline
    /\ input = Str(<<"r", " ", "=", " ", "\"", "a", "CR", "LF">>)
    /\ \E i \in ErrorsOf(res.ev) : res.ev[i].flag = "bad_quoted_char"
    /\ Len(res.ev) > 6

----------------------------------------------------------------------------
(* Specification of the repeat prefix: every text over RepeatChars, alone
   and as the elements of the rule `r = ...` CR LF *)

RepeatChars == {"1", "2", "3", "6", "*", "a"}

RepeatTexts ==
    UNION {{[s |-> Str(body), at |-> 1],
            [s |-> Str(<<"r", " ", "=", " ">> \o body \o <<"CR", "LF">>), at |-> 1],
            [s |-> Str(<<"r", " ", "=", " ">> \o body \o <<"CR", "LF">>), at |-> 5]} :
           body \in SeqsUpTo(RepeatChars, MaxRepeatLen)}

InitRepeat ==
    /\ \E t \in RepeatTexts : input = t.s /\ start = t.at
    /\ vetoAt = 0
    /\ sticky = FALSE
    /\ oob = Ord["NUL"]
    /\ ub = "wrap"
    /\ op = "idle"
    /\ res = NoResult

NextRepeat ==
    \/ Call_advance_repeat
    \/ Call_advance_repetition
    \/ Call_advance_rulelist

SpecRepeat == InitRepeat /\ [][NextRepeat]_vars

----------------------------------------------------------------------------
(* Claims about the repeat prefix (checked under SpecRepeat) *)

\* the mathematical value of a digit sequence
RECURSIVE DecValue(_)
DecValue(s) ==
    IF Len(s) = 0 THEN 0
    ELSE 10 * DecValue(SubSeq(s, 1, Len(s) - 1)) + (s[Len(s)] - Ord["0"])

\* the end of the digit run of the input that starts at i
RunEnd(i) ==
    LET stops == {j \in i..Len(input) : ~(Ord["0"] <= input[j] /\ input[j] <= Ord["9"])}
    IN  IF stops = {} THEN Len(input) + 1 ELSE Min(stops)

\* the repeat prefix the grammar sees at position s0: [N] ["*" [M]]
RepeatAt(s0) ==
    LET lowEnd == RunEnd(s0)
        hasStar == lowEnd <= Len(input) /\ input[lowEnd] = Ord["*"]
        upEnd == RunEnd(lowEnd + 1)
        hasUp == hasStar /\ upEnd > lowEnd + 1
        N == DecValue(SubSeq(input, s0, lowEnd - 1))
        M == IF hasUp THEN DecValue(SubSeq(input, lowEnd + 1, upEnd - 1)) ELSE 0
    IN  [present |-> lowEnd > s0 \/ hasStar,
         N |-> N, M |-> M, upStart |-> lowEnd + 1,
         low |-> N,
         high |-> IF hasStar THEN (IF hasUp THEN M ELSE LongMax) ELSE N]

RepeatEvents(ev) == {i \in DOMAIN ev : ev[i].cb = "repeat"}

\* C6: advance_repeat emits repeat(low, high) with N => (N, N), N*M =>
\* (N, M), N* => (N, max), *M => (0, M), * => (0, max), whatever follows
\* the repeat; in the document `r = <repeat>a` the event fires before
\* rulename("a").
C6_RepeatBounds ==
    /\ (op = "advance_repeat" /\ Returned) =>
          LET r == RepeatAt(start)
          IN  (r.present /\ r.N <= LongMax /\ r.M <= LongMax /\ r.low <= r.high) =>
                  /\ res.ok
                  /\ Cardinality(RepeatEvents(res.ev)) = 1
                  /\ \A i \in RepeatEvents(res.ev) :
                        res.ev[i].a = r.low /\ res.ev[i].b = r.high
    /\ (op = "advance_rulelist" /\ Returned /\ start = 1 /\ Len(input) = 8
        /\ SubSeq(input, 6, 8) = Str(<<"a", "CR", "LF">>)
        /\ Ord["0"] < input[5] /\ input[5] <= Ord["9"]) =>
          \E i \in RepeatEvents(res.ev) :
              /\ res.ev[i].a = input[5] - Ord["0"]
              /\ res.ev[i].b = input[5] - Ord["0"]
              /\ i < Len(res.ev)
              /\ res.ev[i + 1].cb = "rulename"

\* C8: when the repeat is N*M with N > M, or one of its digit runs
\* overflows `long`, advance_repeat reports exactly error(bad_repeat_range)
\* at the start of the repeat (at the start of the upper run if that one
\* overflows), emits no repeat event, returns false and leaves the cursor
\* unchanged; advance_rulelist returns false for such a document.
C8_BadRepeatRange ==
    LET r == RepeatAt(IF op = "advance_rulelist" THEN 5 ELSE start)
        bad == r.present /\ (r.N > LongMax \/ r.M > LongMax \/ r.low > r.high)
        near == IF r.N <= LongMax /\ r.M > LongMax THEN r.upStart ELSE start
    IN  /\ (op = "advance_repeat" /\ bad) =>
              /\ ~res.aborted /\ Defined(res.ev)
              /\ ~res.ok
              /\ res.pos = start
              /\ RepeatEvents(res.ev) = {}
              /\ Cardinality(ErrorsOf(res.ev)) = 1
              /\ \A i \in ErrorsOf(res.ev) :
                    res.ev[i].flag = "bad_repeat_range" /\ res.ev[i].a = near
        /\ (op = "advance_rulelist" /\ start = 1 /\ Len(input) > 6 /\ bad) =>
              (~res.aborted /\ ~res.ok)

----------------------------------------------------------------------------
(* Specification of the numeric helper: to_decimal_number on every short   *)
(* sequence over the digits and the characters next to them                *)

DecChars == {Ord[c] : c \in {"0", "1", "2", "3", "4", "5", "6", "7", "8", "9", "/", ":"}}

is_all_digits(s) == \A i \in 1..Len(s) : Ord["0"] <= s[i] /\ s[i] <= Ord["9"]

InitDec ==
    /\ input \in SeqsUpTo(DecChars, MaxDigits)
    /\ start = 1
    /\ vetoAt = 0
    /\ sticky = FALSE
    /\ oob = Ord["NUL"]
    /\ ub \in {"wrap", "trap"}
    /\ op = "idle"
    /\ res = [first |-> 0, second |-> FALSE, ubhit |-> FALSE, trapped |-> FALSE]

Call_to_decimal_number ==
    /\ op = "idle"
    /\ op' = "to_decimal_number"
    /\ res' = to_decimal_number(input, ub)
    /\ UNCHANGED <<input, start, vetoAt, sticky, oob, ub>>

NextDec == Call_to_decimal_number

SpecDec == InitDec /\ [][NextDec]_vars

----------------------------------------------------------------------------
(* Claims about to_decimal_number (checked under SpecDec) *)

\* C9: for every all-digit input, to_decimal_number returns (max, false) if
\* the value exceeds the maximum of `long` and (value, true) otherwise, and
\* no input makes the accumulated result overflow `long`.
C9_OverflowDetected ==
    op = "to_decimal_number" =>
        /\ ~res.ubhit
        /\ is_all_digits(input) =>
              IF DecValue(input) > LongMax
              THEN res.first = LongMax /\ res.second = FALSE
              ELSE res.first = DecValue(input) /\ res.second = TRUE

\* C10: for every sequence that contains a non-digit character, whatever
\* precedes it, to_decimal_number returns (0, false); for the empty
\* sequence it returns (0, true).
C10_NonDigitGivesZeroFalse ==
    op = "to_decimal_number" =>
        /\ ~is_all_digits(input) => (res.first = 0 /\ res.second = FALSE)
        /\ input = <<>> => (res.first = 0 /\ res.second = TRUE)

\* the digits before the first non-digit character
DigitPrefix(s) ==
    LET bad == {i \in 1..Len(s) : ~(Ord["0"] <= s[i] /\ s[i] <= Ord["9"])}
    IN  IF bad = {} THEN s ELSE SubSeq(s, 1, Min(bad) - 1)

\* C10 (amended): for every sequence with a non-digit character whose
\* digits before the first non-digit do not overflow `long`,
\* to_decimal_number returns (0, false) (a prefix that overflows is reported
\* as an overflow before the non-digit is read); for the empty sequence it
\* returns (0, true).
C10_NonDigitAfterValidPrefix ==
    op = "to_decimal_number" =>
        /\ (~is_all_digits(input) /\ DecValue(DigitPrefix(input)) <= LongMax)
              => (res.first = 0 /\ res.second = FALSE /\ ~res.ubhit)
        /\ input = <<>> => (res.first = 0 /\ res.second = TRUE)

\* a non-digit behind a non-zero number was converted
C10_Witness ==
    /\ op = "to_decimal_number"
    /\ ~is_all_digits(input)
    /\ Len(DigitPrefix(input)) > 0
    /\ DecValue(DigitPrefix(input)) \in 1..LongMax
    /\ res.first = 0 /\ res.second = FALSE

----------------------------------------------------------------------------
(* Specification of the numeric literal: `%` and a base letter before every
   text over NumberChars (`A` ends a decimal or binary run), and those
   texts alone *)

NumberChars == {"1", "A", "-", "."}

\* what precedes the text: nothing, or `%` and a base letter (`a` is none)
NumberPrefixes ==
    {<<>>, <<"%", "x">>, <<"%", "d">>, <<"%", "b">>, <<"%", "a">>}

NumberTexts ==
    {Str(pre \o body) : pre \in NumberPrefixes, body \in SeqsUpTo(NumberChars, MaxNumLen)}

InitNumber ==
    /\ input \in NumberTexts
    /\ start = 1
    /\ vetoAt = 0
    /\ sticky = FALSE
    /\ oob = Ord["NUL"]
    /\ ub = "wrap"
    /\ op = "idle"
    /\ res = NoResult

NextNumber == Call_advance_number

SpecNumber == InitNumber /\ [][NextNumber]_vars

NumberCallbacks == {"first_number", "next_number", "last_number"}

\* the numeric events of a trace, in order
NumberEvents(ev) == SelectSeq(ev, LAMBDA e : e.cb \in NumberCallbacks)

\* the flag and the digits that the base letter of the input selects
BaseFlag ==
    IF input[start + 1] = Ord["x"] THEN "hexadecimal"
    ELSE IF input[start + 1] = Ord["d"] THEN "decimal" ELSE "binary"
BaseDigits ==
    IF input[start + 1] = Ord["x"] THEN HexDigitChars
    ELSE IF input[start + 1] = Ord["d"] THEN DigitChars ELSE BitChars

\* the character of the input at i is ch
InputIs(i, ch) == i <= Len(input) /\ input[i] = Ord[ch]

\* [a, b) is a whole, non-empty run of digits of the base
IsDigitRun(a, b) ==
    /\ a < b /\ b <= Len(input) + 1
    /\ \A i \in a..(b - 1) : input[i] \in BaseDigits
    /\ b <= Len(input) => input[b] \notin BaseDigits

\* the numeric events n of one literal are those of a range, of a sequence
\* or of a lone run that ends at `pos`
NumberTrace(n, pos) ==
    /\ Len(n) >= 2
    /\ \A i \in DOMAIN n : n[i].flag = BaseFlag
    /\ n[1].cb = "first_number" /\ n[1].a = start + 2 /\ IsDigitRun(n[1].a, n[1].b)
    /\ n[Len(n)].cb = "last_number"
    /\ \A i \in 2..(Len(n) - 1) : n[i].cb = "next_number"
    /\ n[Len(n)].b = pos
    /\ \/ /\ InputIs(n[1].b, "-")
          /\ Len(n) = 2
          /\ n[2].a = n[1].b + 1 /\ IsDigitRun(n[2].a, n[2].b)
       \/ /\ InputIs(n[1].b, ".")
          /\ Len(n) >= 3
          /\ \A i \in 2..(Len(n) - 1) :
                /\ InputIs(n[i - 1].b, ".")
                /\ n[i].a = n[i - 1].b + 1 /\ IsDigitRun(n[i].a, n[i].b)
          /\ n[Len(n)].a = pos /\ n[Len(n) - 1].b = pos
          /\ ~InputIs(pos, ".")
       \/ /\ ~InputIs(n[1].b, "-") /\ ~InputIs(n[1].b, ".")
          /\ Len(n) = 2
          /\ n[2].a = pos /\ n[1].b = pos

\* C11: a successful advance_number emits first_number(flag, first run);
\* for a range then exactly one last_number(flag, second run); for a
\* sequence one next_number(flag, run) per further run in order and then
\* last_number(flag, empty span at the end); for a lone run
\* last_number(flag, empty span at the end); the flag is that of the base
\* in every event.
C11_NumberEvents ==
    (op = "advance_number" /\ Returned /\ res.ok) =>
        NumberTrace(NumberEvents(res.ev), res.pos)

\* a sequence of three runs was accepted
C11_Witness ==
    /\ op = "advance_number" /\ Returned /\ res.ok
    /\ Len(NumberEvents(res.ev)) = 4
    /\ NumberEvents(res.ev)[3].cb = "next_number"

----------------------------------------------------------------------------
(* Comments *)

\* no character of the line of i before i is ch
NotBeforeOnLine(i, ch) ==
    \A j \in start..(i - 1) :
        input[j] = Ord[ch] => \E k \in j..(i - 1) : input[k] \in {Ord["CR"], Ord["LF"]}

\* the positions in [a, b) of the input where a comment starts: a `;` that
\* is neither in another comment nor in a quoted string nor in prose
CommentStarts(a, b) ==
    {i \in a..(b - 1) :
        /\ input[i] = Ord[";"]
        /\ NotBeforeOnLine(i, ";") /\ NotBeforeOnLine(i, "\"") /\ NotBeforeOnLine(i, "<")}

CommentEvents(ev) == {i \in DOMAIN ev : ev[i].cb = "comment"}

\* C12: every comment the parser consumes is reported by exactly one
\* comment(span) event: an accepted document has as many comment events as
\* the consumed text has comments.
C12_CommentEvent ==
    (op = "advance_rulelist" /\ Returned /\ res.ok) =>
        Cardinality(CommentEvents(res.ev)) = Cardinality(CommentStarts(start, res.pos))

----------------------------------------------------------------------------
(* Specification of the repetition driver: advance_repetition_by_range with
   the ALPHA matcher of its test, on every short text over RangeChars and
   every range up to MaxRange *)

RangeChars == {"a", "b", "9"}

\* the bytes a read through the end of the test's vector may find
RangePastEndBytes == {Ord["NUL"], Ord["a"]}

InitRange ==
    /\ input \in {Str(t) : t \in SeqsUpTo(RangeChars, MaxRangeLen)}
    /\ start = 1
    /\ vetoAt = 0
    /\ sticky = FALSE
    /\ oob = Ord["NUL"]
    /\ ub = "wrap"
    /\ op = "idle"
    /\ res = [ok |-> FALSE, pos |-> 0, ev |-> <<>>, aborted |-> FALSE,
              range |-> [first |-> 0, second |-> 0]]

\* the outcome r of the driver called with the range rg and the byte o
\* behind the input
ObserveRange(r, rg, o) ==
    /\ res' = [ok |-> r.ok, pos |-> r.pos, ev |-> r.ev, aborted |-> FALSE, range |-> rg]
    /\ oob' = IF HasMark(r.ev, DerefEnd) THEN o ELSE Ord["NUL"]

Call_advance_repetition_by_range ==
    /\ op = "idle"
    /\ \E low \in 0..MaxRange, high \in 0..MaxRange, o \in RangePastEndBytes :
          ObserveRange(advance_repetition_by_range(
                           Ctx(input, vetoAt, sticky, o, "wrap"), start, <<>>,
                           [first |-> low, second |-> high], "alpha_matcher"),
                       [first |-> low, second |-> high], o)
    /\ op' = "advance_repetition_by_range"
    /\ UNCHANGED <<input, start, vetoAt, sticky, ub>>

NextRange == Call_advance_repetition_by_range

SpecRange == InitRange /\ [][NextRange]_vars

\* the applications of the sub-parser in a trace, and those that succeeded
Applications(ev) == {i \in DOMAIN ev : ev[i].cb = "apply"}
Successes(ev) == {i \in Applications(ev) : ev[i].arg}

\* the position behind the last successful application
AfterLastSuccess(ev) ==
    IF Successes(ev) = {} THEN start
    ELSE ev[CHOOSE i \in Successes(ev) : \A j \in Successes(ev) : j <= i].b

\* C13: advance_repetition_by_range applies f repeatedly, at most `high`
\* times and until it fails; it returns true iff the number of successful
\* applications lies in [low, high] and then leaves pos behind the last
\* successful application; when it returns false pos is its initial value,
\* and a range with low > high returns false without applying f.
C13_RepetitionByRange ==
    op = "advance_repetition_by_range" =>
        /\ Cardinality(Successes(res.ev)) <= res.range.second
        /\ \A i \in Applications(res.ev) :
              ~res.ev[i].arg => \A j \in Applications(res.ev) : j <= i
        /\ (res.range.first <= res.range.second
            /\ Cardinality(Successes(res.ev)) < res.range.second)
              => \E i \in Applications(res.ev) : ~res.ev[i].arg
        /\ res.ok <=> /\ res.range.first <= Cardinality(Successes(res.ev))
                      /\ Cardinality(Successes(res.ev)) <= res.range.second
        /\ res.ok => res.pos = AfterLastSuccess(res.ev)
        /\ ~res.ok => res.pos = start
        /\ res.range.first > res.range.second => (~res.ok /\ Applications(res.ev) = {})

\* the range (1, 2) on "ab": true, distance 2
C13_Witness ==
    /\ op = "advance_repetition_by_range"
    /\ input = Str(<<"a", "b">>)
    /\ res.range = [first |-> 1, second |-> 2]
    /\ res.ok /\ res.pos = start + 2

\* C14: when advance_number returns false (the `%` is not followed by b, d
\* or x, or a mandatory digit run is empty: the first run, the run after
\* `-`, a run after `.`), it has emitted no first_number, next_number or
\* last_number event and has not moved the cursor (stated of the calls that
\* read nothing behind the input, whose behaviour is defined).
C14_NumberFailsSilently ==
    (op = "advance_number" /\ Returned /\ ~res.ok /\ ~HasMark(res.ev, DerefEnd)) =>
        /\ NumberEvents(res.ev) = <<>>
        /\ res.pos = start

----------------------------------------------------------------------------
(* The end of a rule *)

\* [a, b) of the input ends with a line terminator and the continuation
\* lines behind it: a CR or LF followed by white space and newlines only
LineEnded(a, b) ==
    \E k \in a..(b - 1) :
        /\ k <= Len(input) /\ input[k] \in {Ord["CR"], Ord["LF"]}
        /\ \A j \in (k + 1)..(b - 1) :
              j <= Len(input) /\ input[j] \in {Ord[" "], Ord["HTAB"], Ord["CR"], Ord["LF"]}

EndRuleTrue(ev) == \E i \in DOMAIN ev : ev[i].cb = "end_rule" /\ ev[i].arg

\* C15: advance_rule emits end_rule(success = true) and returns true only
\* if the rule's elements were followed by a c-nl; a rule whose elements run
\* up to the end of the input with no line terminator ends with
\* end_rule(success = false).
C15_RuleNeedsNewline ==
    (op = "advance_rule" /\ Returned /\ res.ok /\ EndRuleTrue(res.ev)) =>
        LineEnded(start, res.pos)

\* C15 (amended): advance_rule emits end_rule(success = true) and returns
\* true only if the rule's elements were followed by a c-nl or ran up to the
\* end of the input; elements followed by anything else end the rule with
\* end_rule(success = false).
C15_RuleNeedsNewlineOrEnd ==
    (op = "advance_rule" /\ Returned /\ res.ok /\ EndRuleTrue(res.ev)) =>
        (LineEnded(start, res.pos) \/ res.pos >= Len(input) + 1)

\* a rule was accepted at its newline, before the end of the input
C15_Witness ==
    /\ op = "advance_rule" /\ Returned /\ res.ok /\ EndRuleTrue(res.ev)
    /\ res.pos <= Len(input)
    /\ LineEnded(start, res.pos)

----------------------------------------------------------------------------
(* Reads *)

\* C16: for every input and every start position, no advancer reads through
\* the cursor when it equals `last`: the trace of a call holds no read at or
\* behind the end of the input.
C16_NoReadPastEnd ==
    op \in Advancers => ~HasMark(res.ev, DerefEnd)

----------------------------------------------------------------------------
(* Specification of the document: one or two lines `r=<body>` CR LF with
   every body over DocChars *)

DocChars == {"a", "\"", ")", " "}

DocLines ==
    {<<"r", "=">> \o body \o <<"CR", "LF">> : body \in SeqsUpTo(DocChars, MaxDocLen)}

InitDocument ==
    /\ input \in {Str(l) : l \in DocLines} \cup {Str(l \o m) : l \in DocLines, m \in DocLines}
    /\ start = 1
    /\ vetoAt = 0
    /\ sticky = FALSE
    /\ oob = Ord["NUL"]
    /\ ub = "wrap"
    /\ op = "idle"
    /\ res = NoResult

NextDocument == Call_advance_rulelist

SpecDocument == InitDocument /\ [][NextDocument]_vars

EndDocumentTrue(ev) == \E i \in DOMAIN ev : ev[i].cb = "end_document" /\ ev[i].arg

\* C17: advance_rulelist returns true and passes success = true to
\* end_document only if every begin_rule of the parse was closed by
\* end_rule with success = true and no error was reported; a malformed rule
\* behind well-formed rules makes the document fail.
C17_DocumentAcceptance ==
    (op = "advance_rulelist" /\ Returned /\ (res.ok \/ EndDocumentTrue(res.ev))) =>
        /\ WellNested(res.ev)
        /\ \A i \in DOMAIN res.ev : res.ev[i].cb = "end_rule" => res.ev[i].arg
        /\ ErrorsOf(res.ev) = {}

----------------------------------------------------------------------------
(* Failed brackets inside an accepted rule *)

\* for every event of ev[i..] the begin event of the innermost bracket open
\* at it (for an end event: the begin event it closes), 0 outside every
\* bracket; `stack` holds the begin events open before ev[i]
RECURSIVE Enclosing(_, _, _)
Enclosing(ev, i, stack) ==
    IF i > Len(ev) THEN <<>>
    ELSE IF ev[i].cb \in BeginCallbacks
    THEN <<IF stack = <<>> THEN 0 ELSE stack[Len(stack)]>>
         \o Enclosing(ev, i + 1, Append(stack, i))
    ELSE IF ev[i].cb \in EndCallbacks /\ stack # <<>>
    THEN <<stack[Len(stack)]>> \o Enclosing(ev, i + 1, SubSeq(stack, 1, Len(stack) - 1))
    ELSE <<IF stack = <<>> THEN 0 ELSE stack[Len(stack)]>> \o Enclosing(ev, i + 1, stack)

\* the bracket opened at b and the brackets around it
RECURSIVE Ancestors(_, _)
Ancestors(enc, b) == IF b = 0 THEN {} ELSE {b} \cup Ancestors(enc, enc[b])

\* the bracket opened at b was closed with success = s
ClosedWith(ev, enc, b, s) ==
    \E e \in DOMAIN ev : ev[e].cb \in EndCallbacks /\ enc[e] = b /\ ev[e].arg = s

\* the bracket opened at b is a failed attempt at one more repetition of a
\* concatenation that succeeded, or at one more concatenation of an
\* alternation that succeeded
Speculative(ev, enc, b) ==
    /\ ClosedWith(ev, enc, b, FALSE)
    /\ enc[b] # 0
    /\ ClosedWith(ev, enc, enc[b], TRUE)
    /\ \/ ev[b].cb = "begin_repetition" /\ ev[enc[b]].cb = "begin_concatenation"
       \/ ev[b].cb = "begin_concatenation" /\ ev[enc[b]].cb = "begin_alternation"
    /\ \E c \in 1..(b - 1) : ev[c].cb = ev[b].cb /\ enc[c] = enc[b]

InnerEndCallbacks ==
    {"end_repetition", "end_concatenation", "end_alternation", "end_group", "end_option"}

\* the rules of a trace that were closed with success = true
AcceptedRules(ev, enc) ==
    {r \in DOMAIN ev : ev[r].cb = "begin_rule" /\ ClosedWith(ev, enc, r, TRUE)}

CleanRules(ev, enc) ==
    \A r \in AcceptedRules(ev, enc) :
        \A i \in DOMAIN ev :
            (ev[i].cb \in InnerEndCallbacks /\ r \in Ancestors(enc, enc[i])) => ev[i].arg

SpeculativeFailuresOnly(ev, enc) ==
    \A r \in AcceptedRules(ev, enc) :
        /\ \A b \in DOMAIN ev :
              (ev[b].cb = "begin_alternation" /\ enc[b] = r) => ClosedWith(ev, enc, b, TRUE)
        /\ \A i \in DOMAIN ev :
              (ev[i].cb \in InnerEndCallbacks /\ ~ev[i].arg /\ r \in Ancestors(enc, enc[i]))
                  => \E b \in Ancestors(enc, enc[i]) : Speculative(ev, enc, b)

\* C18: with an observer that never vetoes, for every rule whose end_rule
\* carries success = true, every end_repetition, end_concatenation,
\* end_alternation, end_group and end_option between its begin_rule and
\* end_rule carries success = true.
C18_CleanSuccessTrace ==
    (op \in {"advance_rule", "advance_rulelist"} /\ Returned /\ vetoAt = 0) =>
        CleanRules(res.ev, Enclosing(res.ev, 1, <<>>))

\* C18 (amended): with an observer that never vetoes, for every rule whose
\* end_rule carries success = true, the end_alternation of the rule's
\* elements carries success = true, and every end event with success = false
\* between its begin_rule and end_rule lies in a failed attempt at one more
\* repetition of a concatenation that succeeded or at one more
\* concatenation of an alternation that succeeded.
C18_SpeculativeFailuresOnly ==
    (op \in {"advance_rule", "advance_rulelist"} /\ Returned /\ vetoAt = 0) =>
        SpeculativeFailuresOnly(res.ev, Enclosing(res.ev, 1, <<>>))

\* an accepted rule with a failed bracket inside
C18_Witness ==
    /\ op \in {"advance_rule", "advance_rulelist"} /\ Returned /\ vetoAt = 0
    /\ ~CleanRules(res.ev, Enclosing(res.ev, 1, <<>>))

----------------------------------------------------------------------------
(* Specification of the loops: the sub-parser of an unbounded loop applied
   to the cursor again and again until it fails, one application per step,
   on every text over LoopChars with at most one group and under every
   observer of LoopVetoes *)

\* the sub-parsers that advance_rulelist, advance_concatenation and
\* advance_alternation hand to advance_repetition_by_range, and those of
\* the `while` loops
Loops ==
    {"rulelist_item", "concatenation_tail", "alternation_tail", "c-wsp",
     "advance_linear_whitespace"}

LoopChars == {"a", " ", "/", "=", "LF", "("}

LoopTexts ==
    {Str(t) : t \in {u \in SeqsUpTo(LoopChars, MaxLoopLen) :
                        Cardinality({i \in DOMAIN u : u[i] = "("}) <= 1}}

\* the observers: the boolean callback that is refused (0: none)
LoopVetoes == {0, 1, 2}

NoLoop == [ok |-> FALSE, pos |-> 0, ev |-> <<>>, aborted |-> FALSE, iter |-> 0, done |-> FALSE]

\* the byte behind the input matters to a text with a group only: the other
\* reads through `last` ask for a letter, which no byte of PastEndBytes is
InitLoop ==
    /\ input \in LoopTexts
    /\ start = 1
    /\ vetoAt \in LoopVetoes
    /\ sticky \in (IF vetoAt = 0 THEN {FALSE} ELSE BOOLEAN)
    /\ oob \in (IF \E i \in DOMAIN input : input[i] = Ord["("]
                THEN PastEndBytes ELSE {Ord["NUL"]})
    /\ ub = "wrap"
    /\ op = "idle"
    /\ res = NoLoop

\* the loop over the sub-parser f is entered with the cursor at `start`
Enter_loop ==
    /\ op = "idle"
    /\ \E f \in Loops : op' = f
    /\ res' = [NoLoop EXCEPT !.pos = start]
    /\ UNCHANGED <<input, start, vetoAt, sticky, oob, ub>>

\* r is what the sub-parser returned: the loop goes on from r.pos if it
\* succeeded and ends if it failed
LoopStep(r) ==
    res' = [ok |-> r.ok, pos |-> IF r.ok THEN r.pos ELSE res.pos, ev |-> r.ev,
            aborted |-> FALSE, iter |-> res.iter + 1, done |-> ~r.ok]

\* one iteration: the sub-parser is applied at the cursor
Iterate ==
    /\ op \in Loops
    /\ ~res.done
    /\ res.iter < Len(input) + 2
    /\ LoopStep(Advance(op, Ctx(input, vetoAt, sticky, oob, ub), res.pos, res.ev))
    /\ UNCHANGED <<input, start, vetoAt, sticky, oob, ub, op>>

NextLoop == Enter_loop \/ Iterate

SpecLoop == InitLoop /\ [][NextLoop]_vars

\* C19: every loop terminates on every finite input and every observer:
\* each iteration either fails, which ends the loop, or succeeds and then
\* strictly advances the cursor; the cursor stays within one position of the
\* end of the input, so a loop has failed after at most as many iterations
\* as the input has positions.
C19_LoopsTerminate ==
    /\ [][(op \in Loops /\ res'.ok) => res'.pos > res.pos]_vars
    /\ [](op \in Loops =>
            /\ res.pos <= Len(input) + 2
            /\ res.iter <= (res.pos - start) + 1
            /\ ~res.done => res.iter <= Len(input) + 1)

\* a loop that iterated twice with success was left
C19_Witness ==
    /\ op \in Loops
    /\ res.done
    /\ res.iter >= 3

====
